---- MODULE Spec2Model ----
(***************************************************************************)
(* A model of the GCS storage gateway of keepsake                          *)
(* (cli/pkg/storage/gcs.go): the bounded concurrent applier                *)
(* applyRecursive and the streaming matcher listRecursive.                 *)
(* Spec is a call of applyRecursive, SpecList a call of                     *)
(* MatchFilenamesRecursive.                                                *)
(*                                                                         *)
(* Strings are sequences of one-character strings, so that prefixes,       *)
(* suffixes and path components are computed, not assumed.                 *)
(***************************************************************************)
EXTENDS Integers, Sequences, FiniteSets, TLC

\* ------------------------------------------------------------------ bounds
\* Largest concurrency tried (the smallest is -1).
MaxN == 2
\* Number of objects of Universe that may be in the bucket.
MaxObjs == 3
\* Largest capacity of the results channel handed to listRecursive.
MaxCap == 2
\* Longest prefix string normalised.
MaxLen == 3

\* ----------------------------------------------------------------- strings
\* strings.HasPrefix
HasPrefix(s, p) == Len(p) <= Len(s) /\ SubSeq(s, 1, Len(p)) = p

\* strings.HasSuffix
HasSuffix(s, p) == Len(p) <= Len(s) /\ SubSeq(s, Len(s) - Len(p) + 1, Len(s)) = p

\* strings.TrimPrefix: removes one leading occurrence of p, if there is one
TrimPrefix(s, p) == IF HasPrefix(s, p) THEN SubSeq(s, Len(p) + 1, Len(s)) ELSE s

\* The prefix normalisation at the entry of List and listRecursive.
NormalizePrefix(folder) ==
    LET f == IF ~HasSuffix(folder, <<"/">>) THEN folder \o <<"/">> ELSE folder
    IN  TrimPrefix(f, <<"/">>)

Range(q) == {q[i] : i \in 1..Len(q)}

\* ------------------------------------------------------------------- paths
\* A cleaned path is its elements, in order, and whether it is rooted.
Dot    == <<".">>
DotDot == <<".", ".">>

\* The elements of a path: what lies between its separators, empty ones dropped.
RECURSIVE SplitAcc(_, _, _)
SplitAcc(path, cur, acc) ==
    IF path = <<>> THEN (IF cur = <<>> THEN acc ELSE Append(acc, cur))
    ELSE IF Head(path) = "/"
           THEN SplitAcc(Tail(path), <<>>, IF cur = <<>> THEN acc ELSE Append(acc, cur))
           ELSE SplitAcc(Tail(path), Append(cur, Head(path)), acc)

Elements(path) == SplitAcc(path, <<>>, <<>>)

IsRooted(path) == path # <<>> /\ path[1] = "/"

\* filepath.Clean on elements: "." is dropped, ".." removes the element
\* before it, is dropped at the root and kept at the start of a relative path.
RECURSIVE ResolveAcc(_, _, _)
ResolveAcc(elems, rooted, acc) ==
    IF elems = <<>> THEN acc
    ELSE LET e == Head(elems) IN
         IF e = Dot THEN ResolveAcc(Tail(elems), rooted, acc)
         ELSE IF e = DotDot
                THEN IF acc # <<>> /\ acc[Len(acc)] # DotDot
                       THEN ResolveAcc(Tail(elems), rooted, SubSeq(acc, 1, Len(acc) - 1))
                       ELSE IF rooted THEN ResolveAcc(Tail(elems), rooted, acc)
                            ELSE ResolveAcc(Tail(elems), rooted, Append(acc, DotDot))
                ELSE ResolveAcc(Tail(elems), rooted, Append(acc, e))

\* filepath.Clean
Clean(path) ==
    [rooted |-> IsRooted(path),
     elems  |-> ResolveAcc(Elements(path), IsRooted(path), <<>>)]

\* The number of leading elements two cleaned paths share.
RECURSIVE CommonLen(_, _)
CommonLen(b, t) ==
    IF b # <<>> /\ t # <<>> /\ Head(b) = Head(t)
      THEN 1 + CommonLen(Tail(b), Tail(t))
      ELSE 0

\* filepath.Rel(basepath, targpath): an error when only one of the two is
\* rooted or when the base goes up where the paths part; otherwise ".." for
\* every base element left, then the target elements left ("." when none).
Rel(basepath, targpath) ==
    LET base == Clean(basepath)
        targ == Clean(targpath)
        c    == CommonLen(base.elems, targ.elems)
        ups  == [i \in 1..(Len(base.elems) - c) |-> DotDot]
        rest == SubSeq(targ.elems, c + 1, Len(targ.elems))
    IN  IF base = targ THEN [ok |-> TRUE, elems |-> <<Dot>>]
        ELSE IF base.rooted # targ.rooted THEN [ok |-> FALSE, elems |-> <<>>]
        ELSE IF c < Len(base.elems) /\ base.elems[c + 1] = DotDot
               THEN [ok |-> FALSE, elems |-> <<>>]
        ELSE [ok |-> TRUE, elems |-> ups \o rest]

\* filepath.Join(dirpath, relPath), relPath given by its elements
Join(dirpath, relElems) ==
    [rooted |-> IsRooted(dirpath),
     elems  |-> ResolveAcc(Elements(dirpath) \o relElems, IsRooted(dirpath), <<>>)]

\* ------------------------------------------------------------------ bucket
\* The keys the bucket may hold, in the backend's listing order.
Universe ==
    << <<"a", "/", "b">>,
       <<"a", "/", "d", "/">>,
       <<"a", "b">>,
       <<"b", "/", "c", "/", "d">>,
       <<"b", "/", "d">> >>

NumObjs == IF MaxObjs <= Len(Universe) THEN MaxObjs ELSE Len(Universe)

Keys == {Universe[i] : i \in 1..Len(Universe)}

\* The bucket contents tried: the first n keys of Universe.
Buckets == {SubSeq(Universe, 1, n) : n \in 0..NumObjs}

\* The concurrency Delete and GetDirectory pass to applyRecursive.
BulkConcurrency == 128

\* The concurrency arguments tried.
Concurrencies == ((-1)..MaxN) \cup {BulkConcurrency}

\* GetDirectory's localDir argument.
LocalDir == <<"o">>

\* The directory arguments tried.
Dirs == { <<"a">>, <<"a", "/">>, <<"/", "a">>, <<>> }

\* bucket.Objects(ctx, &storage.Query{Prefix: prefix}): the keys that have
\* prefix as a literal string prefix, in listing order.
Objects(bucket, prefix) == SelectSeq(bucket, LAMBDA k : HasPrefix(k, prefix))

\* ------------------------------------------------------------------ errors
Nil         == [kind |-> "nil",      key |-> <<>>]
NotReturned == [kind |-> "none",     key |-> <<>>]
ErrList     == [kind |-> "list",     key |-> <<>>]
ErrCanceled == [kind |-> "canceled", key |-> <<>>]
ErrFn(k)    == [kind |-> "fn",       key |-> k]

VARIABLES
    \* ---- applyRecursive
    dir,          \* argument dir
    concurrency,  \* argument concurrency
    ns,           \* the bucket: its keys in listing order
    semNew,       \* the build's semaphore: TRUE when Acquire gives a done ctx precedence
    pc,           \* position of applyRecursive's own goroutine
    it,           \* the iterator: keys still to be yielded
    attrs,        \* the key yielded by the last it.Next()
    semCur,       \* sem.cur: tokens held
    ready,        \* the waiter of the submission loop has been handed its token
    wstate,       \* per key: the goroutine group.Go started for it
    werr,         \* per key: fn returned a non-nil error
    groupErr,     \* errgroup's g.err
    ctxDone,      \* ctx of errgroup.WithContext is cancelled
    ret,          \* what applyRecursive returned
    listCalls,    \* it.Next() calls issued to the backend
    invoked,      \* per key: number of fn invocations
    failures,     \* the failures (listing, fn) in the order they occurred
    op,           \* the caller and its fn: "delete" (Delete) or "get" (GetDirectory)
    localDir,     \* GetDirectory's argument localDir
    store,        \* the keys the bucket holds now
    local,        \* the local files created, as cleaned paths
    \* ---- listRecursive
    folder,       \* argument folder
    filename,     \* argument filename of MatchFilenamesRecursive
    lbucket,      \* the bucket listRecursive lists
    lpc,          \* position of the producer
    lit,          \* the iterator: keys still to be yielded
    lattrs,       \* attrs of the last it.Next(): <<key>>, or <<>> for nil
    chanCap,      \* capacity of results
    chanBuf,      \* buffered, not yet received results
    closes,       \* number of close(results) executed
    sent,         \* results sent, in order
    received,     \* results the consumer received, in order
    consuming,    \* the consumer is still receiving
    \* ---- prefix normalisation
    npc,          \* how often the normalisation has been applied
    nInput,       \* the prefix given
    nOnce,        \* the prefix normalised
    nTwice,       \* the normalised prefix normalised again
    \* ---- List, Put, PutDirectory
    call,         \* the method called: "List", "Put" or "PutDirectory"
    spath,        \* argument dir of List, path of Put, storagePath of PutDirectory
    data,         \* argument data of Put
    localFiles,   \* the files under PutDirectory's localPath, relative to it
    objects,      \* the bucket: its keys in listing order
    contents,     \* the bucket: the data stored under each key
    spc,          \* position of the call
    sit,          \* List's iterator: entries still to be yielded
    results,      \* List's results
    sret,         \* the error the call returned
    \* ---- docker Run
    rpc,          \* position of Run
    rret,         \* what Run returned
    cancelled,    \* Run's ctx is cancelled (the deferred cancelFun has run)
    container,    \* the container: "none", "created", "running" or "exited"
    exitCode,     \* the exit status of the container
    waitc,        \* ContainerWait: what its channels offer
    resultError,  \* the result on resultChan has a non-nil Error
    wpc,          \* position of waitUntilExit's goroutine
    wval,         \* the status it sends on statusChan
    gpc,          \* position of connectToLogs' goroutine
    errChan,      \* the buffered channel of connectToLogs: the errors in it
    status        \* the status Run received from statusChan

varsN == <<npc, nInput, nOnce, nTwice>>
\* The variables of the calls other than applyRecursive and listRecursive.
varsS == <<call, spath, data, localFiles, objects, contents, spc, sit, results, sret>>
varsR == <<rpc, rret, cancelled, container, exitCode, waitc, resultError, wpc,
           wval, gpc, errChan, status>>
varsX == <<varsN, varsS, varsR>>
varsA == <<dir, concurrency, ns, semNew, pc, it, attrs, semCur, ready, wstate,
           werr, groupErr, ctxDone, ret, listCalls, invoked, failures,
           op, localDir, store, local>>
varsL == <<folder, filename, lbucket, lpc, lit, lattrs, chanCap,
           chanBuf, closes, sent, received, consuming>>
vars  == <<varsA, varsL, varsX>>

\* ========================================================= applyRecursive

InitA ==
    /\ dir \in Dirs
    /\ concurrency \in Concurrencies
    /\ op \in {"delete", "get"}
    /\ localDir = LocalDir
    /\ ns \in Buckets
    /\ store = Range(ns)
    /\ local = {}
    /\ semNew \in BOOLEAN
    /\ pc = "start"
    /\ it = <<>>
    /\ attrs = <<>>
    /\ semCur = 0
    /\ ready = FALSE
    /\ wstate = [k \in Keys |-> "none"]
    /\ werr = [k \in Keys |-> FALSE]
    /\ groupErr = Nil
    /\ ctxDone = FALSE
    /\ ret = NotReturned
    /\ listCalls = 0
    /\ invoked = [k \in Keys |-> 0]
    /\ failures = <<>>

IdleN ==
    /\ npc = "idle"
    /\ nInput = <<>>
    /\ nOnce = <<>>
    /\ nTwice = <<>>

\* No call other than applyRecursive and listRecursive is running.
IdleS ==
    /\ call = "none"
    /\ spath = <<>>
    /\ data = <<>>
    /\ localFiles = {}
    /\ objects = <<>>
    /\ contents = <<>>
    /\ spc = "idle"
    /\ sit = <<>>
    /\ results = <<>>
    /\ sret = NotReturned

\* The status of a container that has not exited, and of a receive that has
\* not happened.
NoStatus == -1

IdleR ==
    /\ rpc = "idle"
    /\ rret = NotReturned
    /\ cancelled = FALSE
    /\ container = "none"
    /\ exitCode = NoStatus
    /\ waitc = "none"
    /\ resultError = FALSE
    /\ wpc = "none"
    /\ wval = NoStatus
    /\ gpc = "none"
    /\ errChan = <<>>
    /\ status = NoStatus

IdleX == IdleN /\ IdleS /\ IdleR

IdleL ==
    /\ folder = <<>>
    /\ filename = <<>>
    /\ lbucket = <<>>
    /\ lpc = "idle"
    /\ lit = <<>>
    /\ lattrs = <<>>
    /\ chanCap = 0
    /\ chanBuf = <<>>
    /\ closes = 0
    /\ sent = <<>>
    /\ received = <<>>
    /\ consuming = FALSE

\* The Prefix of applyRecursive's query: dir as given.
ApplyPrefix(d) == d

\* A semaphore that admits one caller too many.
CanAcquire_OffByOne(cur, size) == size - cur >= 0

\* semaphore.Weighted: a token is free (s.size - s.cur >= n, n = 1).
CanAcquire(cur, size) == size - cur >= 1

\* return err
Return(e) ==
    /\ ret' = e
    /\ pc' = "returned"

\* sem := NewWeighted(concurrency); group, ctx := WithContext(...);
\* it := bucket.Objects(..., Prefix: dir)
Begin ==
    /\ pc = "start"
    /\ it' = Objects(ns, ApplyPrefix(dir))
    /\ pc' = "next"
    /\ UNCHANGED <<varsL, varsX, dir, concurrency, ns, semNew, op, localDir, store, local, attrs, semCur, ready, wstate, werr,
                   groupErr, ctxDone, ret, listCalls, invoked, failures>>

\* A submission loop that takes the last object for the end of the listing.
ItNext_DropsLast ==
    /\ pc = "next"
    /\ listCalls' = listCalls + 1
    /\ \/ /\ Return(ErrList)
          /\ failures' = Append(failures, ErrList)
          /\ UNCHANGED <<it, attrs>>
       \/ /\ Len(it) <= 1
          /\ pc' = "wait"
          /\ UNCHANGED <<it, attrs, ret, failures>>
       \/ /\ Len(it) > 1
          /\ attrs' = Head(it)
          /\ it' = Tail(it)
          /\ pc' = "acquire"
          /\ UNCHANGED <<ret, failures>>
    /\ UNCHANGED <<varsL, varsX, dir, concurrency, ns, semNew, op, localDir, store, local, semCur, ready, wstate, werr,
                   groupErr, ctxDone, invoked>>

\* A loop that returns iterator.Done like any other error.
ItNext_DoneIsError ==
    /\ pc = "next"
    /\ listCalls' = listCalls + 1
    /\ \/ /\ Return(ErrList)
          /\ failures' = Append(failures, ErrList)
          /\ UNCHANGED <<it, attrs>>
       \/ /\ it = <<>>
          /\ Return(ErrList)
          /\ UNCHANGED <<it, attrs, failures>>
       \/ /\ it # <<>>
          /\ attrs' = Head(it)
          /\ it' = Tail(it)
          /\ pc' = "acquire"
          /\ UNCHANGED <<ret, failures>>
    /\ UNCHANGED <<varsL, varsX, dir, concurrency, ns, semNew, op, localDir, store, local, semCur, ready, wstate, werr,
                   groupErr, ctxDone, invoked>>

\* attrs, err := it.Next(): iterator.Done breaks the loop, any other error
\* is returned at once, without waiting for the group.
ItNext ==
    /\ pc = "next"
    /\ listCalls' = listCalls + 1
    /\ \/ /\ Return(ErrList)
          /\ failures' = Append(failures, ErrList)
          /\ UNCHANGED <<it, attrs>>
       \/ /\ it = <<>>
          /\ pc' = "wait"
          /\ UNCHANGED <<it, attrs, ret, failures>>
       \/ /\ it # <<>>
          /\ attrs' = Head(it)
          /\ it' = Tail(it)
          /\ pc' = "acquire"
          /\ UNCHANGED <<ret, failures>>
    /\ UNCHANGED <<varsL, varsX, dir, concurrency, ns, semNew, op, localDir, store, local, semCur, ready, wstate, werr,
                   groupErr, ctxDone, invoked>>

\* sem.Acquire(ctx, 1), on entry: a build whose Acquire prefers a done ctx
\* fails; otherwise a free token is taken; otherwise the caller waits (for a
\* release, or for ctx.Done() alone when 1 > size).
AcquireEnter ==
    /\ pc = "acquire"
    /\ IF semNew /\ ctxDone
         THEN /\ Return(ErrCanceled)
              /\ UNCHANGED <<semCur, ready>>
         ELSE IF CanAcquire(semCur, concurrency)
                THEN /\ semCur' = semCur + 1
                     /\ pc' = "go"
                     /\ UNCHANGED <<ret, ready>>
                ELSE /\ pc' = "waiting"
                     /\ ready' = FALSE
                     /\ UNCHANGED <<ret, semCur>>
    /\ UNCHANGED <<varsL, varsX, dir, concurrency, ns, semNew, op, localDir, store, local, it, attrs, wstate, werr,
                   groupErr, ctxDone, listCalls, invoked, failures>>

\* sem.Acquire(ctx, 1), waiting: select on ctx.Done() and ready. A handed
\* token is kept ("pretend we didn't notice the cancelation"), or given back
\* with ctx.Err() by a build that prefers the done ctx.
AcquireWake ==
    /\ pc = "waiting"
    /\ \/ /\ ready
          /\ pc' = "go"
          /\ ready' = FALSE
          /\ UNCHANGED <<ret, semCur>>
       \/ /\ ready
          /\ semNew /\ ctxDone
          /\ semCur' = semCur - 1
          /\ ready' = FALSE
          /\ Return(ErrCanceled)
       \/ /\ ~ready
          /\ ctxDone
          /\ Return(ErrCanceled)
          /\ UNCHANGED <<semCur, ready>>
    /\ UNCHANGED <<varsL, varsX, dir, concurrency, ns, semNew, op, localDir, store, local, it, attrs, wstate, werr,
                   groupErr, ctxDone, listCalls, invoked, failures>>

\* group.Go(func() error { defer sem.Release(1); return fn(bucket.Object(attrs.Name)) })
Go ==
    /\ pc = "go"
    /\ wstate' = [wstate EXCEPT ![attrs] = "running"]
    /\ invoked' = [invoked EXCEPT ![attrs] = @ + 1]
    /\ pc' = "next"
    /\ UNCHANGED <<varsL, varsX, dir, concurrency, ns, semNew, op, localDir, store, local, it, attrs, semCur, ready, werr,
                   groupErr, ctxDone, ret, listCalls, failures>>

\* A worker that releases its token only after a successful fn.
FnReturn_NoReleaseOnError(k, failed) ==
    /\ wstate[k] = "running"
    /\ wstate' = [wstate EXCEPT ![k] = "released"]
    /\ werr' = [werr EXCEPT ![k] = failed]
    /\ failures' = IF failed THEN Append(failures, ErrFn(k)) ELSE failures
    /\ IF failed THEN UNCHANGED <<semCur, ready>>
       ELSE IF pc = "waiting" /\ ~ready /\ CanAcquire(semCur - 1, concurrency)
         THEN /\ ready' = TRUE
              /\ UNCHANGED semCur
         ELSE /\ semCur' = semCur - 1
              /\ UNCHANGED ready
    /\ store' = IF op = "delete" /\ ~failed THEN store \ {k} ELSE store
    /\ op = "get" /\ ~Rel(dir, k).ok => failed
    /\ local' \in IF op = "get" /\ Rel(dir, k).ok
                    THEN IF failed
                           THEN {local, local \cup {Join(localDir, Rel(dir, k).elems)}}
                           ELSE {local \cup {Join(localDir, Rel(dir, k).elems)}}
                    ELSE {local}
    /\ UNCHANGED <<varsL, varsX, dir, concurrency, ns, semNew, op, localDir, pc, it, attrs,
                   groupErr, ctxDone, ret, listCalls, invoked>>

\* fn(obj) returns, with an error or without, and the deferred
\* sem.Release(1) runs: the token goes back and notifyWaiters hands it to the
\* waiting submission loop. Delete's fn removes the object unless it fails;
\* GetDirectory's fn fails when filepath.Rel does, and otherwise creates the
\* local file at filepath.Join(localDir, relPath), also when the copy into
\* it fails afterwards.
FnReturn(k, failed) ==
    /\ wstate[k] = "running"
    /\ wstate' = [wstate EXCEPT ![k] = "released"]
    /\ werr' = [werr EXCEPT ![k] = failed]
    /\ failures' = IF failed THEN Append(failures, ErrFn(k)) ELSE failures
    /\ IF pc = "waiting" /\ ~ready /\ CanAcquire(semCur - 1, concurrency)
         THEN /\ ready' = TRUE
              /\ UNCHANGED semCur
         ELSE /\ semCur' = semCur - 1
              /\ UNCHANGED ready
    /\ store' = IF op = "delete" /\ ~failed THEN store \ {k} ELSE store
    /\ op = "get" /\ ~Rel(dir, k).ok => failed
    /\ local' \in IF op = "get" /\ Rel(dir, k).ok
                    THEN IF failed
                           THEN {local, local \cup {Join(localDir, Rel(dir, k).elems)}}
                           ELSE {local \cup {Join(localDir, Rel(dir, k).elems)}}
                    ELSE {local}
    /\ UNCHANGED <<varsL, varsX, dir, concurrency, ns, semNew, op, localDir, pc, it, attrs,
                   groupErr, ctxDone, ret, listCalls, invoked>>

\* A group whose failed worker never reports itself done.
WorkerExit_NoDoneOnError(k) ==
    /\ wstate[k] = "released"
    /\ wstate' = IF werr[k] THEN wstate ELSE [wstate EXCEPT ![k] = "done"]
    /\ IF werr[k] /\ groupErr = Nil
         THEN /\ groupErr' = ErrFn(k)
              /\ ctxDone' = TRUE
         ELSE UNCHANGED <<groupErr, ctxDone>>
    /\ UNCHANGED <<varsL, varsX, dir, concurrency, ns, semNew, op, localDir, store, local, pc, it, attrs, semCur, ready, werr,
                   ret, listCalls, invoked, failures>>

\* errgroup's goroutine after f() returned: errOnce stores the first error
\* and cancels ctx; then wg.Done().
WorkerExit(k) ==
    /\ wstate[k] = "released"
    /\ wstate' = [wstate EXCEPT ![k] = "done"]
    /\ IF werr[k] /\ groupErr = Nil
         THEN /\ groupErr' = ErrFn(k)
              /\ ctxDone' = TRUE
         ELSE UNCHANGED <<groupErr, ctxDone>>
    /\ UNCHANGED <<varsL, varsX, dir, concurrency, ns, semNew, op, localDir, store, local, pc, it, attrs, semCur, ready, werr,
                   ret, listCalls, invoked, failures>>

\* A caller that ignores the error of group.Wait().
Wait_DropsError ==
    /\ pc = "wait"
    /\ \A k \in Keys : wstate[k] \in {"none", "done"}
    /\ ctxDone' = TRUE
    /\ Return(Nil)
    /\ UNCHANGED <<varsL, varsX, dir, concurrency, ns, semNew, op, localDir, store, local, it, attrs, semCur, ready, wstate,
                   werr, groupErr, listCalls, invoked, failures>>

\* group.Wait(): wg.Wait(), cancel, return g.err
Wait ==
    /\ pc = "wait"
    /\ \A k \in Keys : wstate[k] \in {"none", "done"}
    /\ ctxDone' = TRUE
    /\ Return(groupErr)
    /\ UNCHANGED <<varsL, varsX, dir, concurrency, ns, semNew, op, localDir, store, local, it, attrs, semCur, ready, wstate,
                   werr, groupErr, listCalls, invoked, failures>>

NextA ==
    \/ Begin
    \/ ItNext
    \/ AcquireEnter
    \/ AcquireWake
    \/ Go
    \/ \E k \in Keys, failed \in BOOLEAN : FnReturn(k, failed)
    \/ \E k \in Keys : WorkerExit(k)
    \/ Wait

Init == InitA /\ IdleL /\ IdleX

Next == NextA

Spec == Init /\ [][Next]_vars

\* The Go scheduler runs every goroutine that can run, the backend answers
\* every call and fn returns: some enabled step is eventually taken.
FairSpec == Spec /\ WF_vars(Next)

\* ------------------------------------------------- claims on applyRecursive

\* The keys whose fn invocation has started and not finished.
Running == {k \in Keys : wstate[k] = "running"}

Returned == ret # NotReturned

\* C1: with concurrency N >= 1, at most N tokens are held and at most N fn
\* invocations are running, in every reachable state.
C1_AtMostNInFlight ==
    concurrency >= 1 =>
        /\ semCur <= concurrency
        /\ Cardinality(Running) <= concurrency

\* C1's case: two invocations running with N = 2 while the submission loop
\* waits for a token for a third object.
C1_Witness ==
    /\ concurrency = 2
    /\ semCur = 2
    /\ Cardinality(Running) = 2
    /\ pc = "waiting"

\* C2: if some fn invocation failed, the error applyRecursive returns is a
\* failure that occurred (listing or fn), and none of the fn failures
\* occurred before it.
C2_ReturnsFirstFailure ==
    (Returned /\ \E j \in 1..Len(failures) : failures[j].kind = "fn") =>
        \E i \in 1..Len(failures) :
            /\ failures[i] = ret
            /\ \A j \in 1..Len(failures) : failures[j].kind = "fn" => i <= j

\* C3: once applyRecursive has returned, no fn invocation it started is
\* still running.
C3_NoWorkerOutlivesCall == Returned => Running = {}

\* C4: once ctx is cancelled, no further fn invocation is started.
C4_NoStartAfterCancel ==
    [][ctxDone => \A k \in Keys : wstate[k] = "none" => wstate'[k] = "none"]_vars

\* C5: with concurrency N <= 0 no listing call is issued, no fn is invoked,
\* and the only thing applyRecursive returns is a configuration error.
C5_ConfigErrorBeforeListing ==
    concurrency <= 0 =>
        /\ listCalls = 0
        /\ \A k \in Keys : invoked[k] = 0
        /\ ret \in {NotReturned, [kind |-> "config", key |-> <<>>]}

\* C6: fn is invoked only on keys that have the normalized dir (a trailing
\* "/" appended if absent, one leading "/" stripped) as a literal prefix.
C6_OnlyUnderNormalizedPrefix ==
    \A k \in Keys : invoked[k] > 0 => HasPrefix(k, NormalizePrefix(dir))

\* C7: with N >= 1 no key is passed to fn more than once, and when
\* applyRecursive returns nil, fn has been invoked exactly once on every key
\* of the recursive listing and on no other key, whatever N is.
C7_ExactlyOncePerListedObject ==
    concurrency >= 1 =>
        /\ \A k \in Keys : invoked[k] <= 1
        /\ ret = Nil =>
              \A k \in Keys :
                  invoked[k] = IF k \in Range(Objects(ns, dir)) THEN 1 ELSE 0

\* C7's case: a nil return with N = 2 over a listing of three objects.
C7_Witness ==
    /\ ret = Nil
    /\ concurrency = 2
    /\ Len(Objects(ns, dir)) = 3
    /\ \A k \in Range(Objects(ns, dir)) : wstate[k] = "done"

\* ========================================================== listRecursive

\* The calls of applyRecursive's model when none is running.
IdleA ==
    /\ dir = <<>>
    /\ concurrency = 0
    /\ op = "none"
    /\ localDir = <<>>
    /\ store = {}
    /\ local = {}
    /\ ns = <<>>
    /\ semNew = FALSE
    /\ pc = "idle"
    /\ it = <<>>
    /\ attrs = <<>>
    /\ semCur = 0
    /\ ready = FALSE
    /\ wstate = [k \in Keys |-> "none"]
    /\ werr = [k \in Keys |-> FALSE]
    /\ groupErr = Nil
    /\ ctxDone = FALSE
    /\ ret = NotReturned
    /\ listCalls = 0
    /\ invoked = [k \in Keys |-> 0]
    /\ failures = <<>>

\* The filename arguments tried.
Filenames == { <<"b">>, <<"d">> }

\* filepath.Base: strip the trailing slashes
RECURSIVE StripTrailingSlashes(_)
StripTrailingSlashes(path) ==
    IF Len(path) > 0 /\ path[Len(path)] = "/"
      THEN StripTrailingSlashes(SubSeq(path, 1, Len(path) - 1))
      ELSE path

\* filepath.Base: the index of the last separator at or before i, 0 if none
RECURSIVE LastSeparator(_, _)
LastSeparator(path, i) ==
    IF i >= 1 /\ path[i] # "/" THEN LastSeparator(path, i - 1) ELSE i

\* filepath.Base
Base(path) ==
    IF path = <<>> THEN <<".">>
    ELSE LET q == StripTrailingSlashes(path)
             i == LastSeparator(q, Len(q))
             r == IF i >= 1 THEN SubSeq(q, i + 1, Len(q)) ELSE q
         IN  IF r = <<>> THEN <<"/">> ELSE r

\* The filter MatchFilenamesRecursive hands to listRecursive.
MatchFilter(key) == Base(key) = filename

PathResult(k) == [kind |-> "path",  key |-> k]
ErrorResult   == [kind |-> "error", key |-> <<>>]

InitL ==
    /\ folder \in Dirs
    /\ filename \in Filenames
    /\ lbucket \in Buckets
    /\ chanCap \in 0..MaxCap
    /\ lpc = "start"
    /\ lit = <<>>
    /\ lattrs = <<>>
    /\ chanBuf = <<>>
    /\ closes = 0
    /\ sent = <<>>
    /\ received = <<>>
    /\ consuming = TRUE

\* A send that gives up instead of blocking (select with a default case):
\* without a receiver or room the result is dropped.
Send_NonBlocking(r) ==
    IF (chanCap = 0 /\ consuming) \/ (chanCap > 0 /\ Len(chanBuf) < chanCap)
      THEN /\ IF chanCap = 0
                THEN received' = Append(received, r) /\ UNCHANGED chanBuf
                ELSE chanBuf' = Append(chanBuf, r) /\ UNCHANGED received
           /\ sent' = Append(sent, r)
      ELSE UNCHANGED <<chanBuf, received, sent>>

\* results <- r: an unbuffered channel hands r to the receiving consumer, a
\* buffered one takes r when it has room; otherwise the send blocks.
Send(r) ==
    /\ IF chanCap = 0
         THEN /\ consuming
              /\ received' = Append(received, r)
              /\ UNCHANGED chanBuf
         ELSE /\ Len(chanBuf) < chanCap
              /\ chanBuf' = Append(chanBuf, r)
              /\ UNCHANGED received
    /\ sent' = Append(sent, r)

\* The normalisation of folder and the query bucket.Objects(Prefix: folder).
LBegin ==
    /\ lpc = "start"
    /\ lit' = Objects(lbucket, NormalizePrefix(folder))
    /\ lpc' = "next"
    /\ UNCHANGED <<varsA, varsX, folder, filename, lbucket, lattrs, chanCap, chanBuf,
                   closes, sent, received, consuming>>

\* A loop whose attrs outlives the iteration: a failed it.Next() leaves the
\* previous object in it.
LNext_StaleAttrs ==
    /\ lpc = "next"
    /\ \/ /\ lpc' = "sendErr"
          /\ UNCHANGED <<lit, lattrs, closes>>
       \/ /\ lit = <<>>
          /\ closes' = closes + 1
          /\ lpc' = "done"
          /\ UNCHANGED <<lit, lattrs>>
       \/ /\ lit # <<>>
          /\ lattrs' = <<Head(lit)>>
          /\ lit' = Tail(lit)
          /\ lpc' = "filter"
          /\ UNCHANGED closes
    /\ UNCHANGED <<varsA, varsX, folder, filename, lbucket, chanCap, chanBuf, sent,
                   received, consuming>>

\* attrs, err := it.Next(): iterator.Done closes results and ends the loop;
\* on any other error attrs is nil and the error result is sent next.
LNext ==
    /\ lpc = "next"
    /\ \/ /\ lattrs' = <<>>
          /\ lpc' = "sendErr"
          /\ UNCHANGED <<lit, closes>>
       \/ /\ lit = <<>>
          /\ closes' = closes + 1
          /\ lpc' = "done"
          /\ UNCHANGED <<lit, lattrs>>
       \/ /\ lit # <<>>
          /\ lattrs' = <<Head(lit)>>
          /\ lit' = Tail(lit)
          /\ lpc' = "filter"
          /\ UNCHANGED closes
    /\ UNCHANGED <<varsA, varsX, folder, filename, lbucket, chanCap, chanBuf, sent,
                   received, consuming>>

\* results <- ListResult{Error: ...}; the loop body goes on, there is no
\* return and no continue after it.
LSendErr ==
    /\ lpc = "sendErr"
    /\ Send(ErrorResult)
    /\ lpc' = "filter"
    /\ UNCHANGED <<varsA, varsX, folder, filename, lbucket, lit, lattrs, chanCap, closes,
                   consuming>>

\* A filter that compares the end of the key instead of its last component.
LFilter_HasSuffix ==
    /\ lpc = "filter"
    /\ lpc' = IF lattrs = <<>> THEN "panic"
              ELSE IF HasSuffix(lattrs[1], filename) THEN "sendPath" ELSE "next"
    /\ UNCHANGED <<varsA, varsX, folder, filename, lbucket, lit, lattrs, chanCap, chanBuf,
                   closes, sent, received, consuming>>

\* if filter(attrs.Name): with a nil attrs the read of attrs.Name is a nil
\* pointer dereference, a run-time panic that ends the process.
LFilter ==
    /\ lpc = "filter"
    /\ lpc' = IF lattrs = <<>> THEN "panic"
              ELSE IF MatchFilter(lattrs[1]) THEN "sendPath" ELSE "next"
    /\ UNCHANGED <<varsA, varsX, folder, filename, lbucket, lit, lattrs, chanCap, chanBuf,
                   closes, sent, received, consuming>>

\* results <- ListResult{Path: attrs.Name}
LSendPath ==
    /\ lpc = "sendPath"
    /\ Send(PathResult(lattrs[1]))
    /\ lpc' = "next"
    /\ UNCHANGED <<varsA, varsX, folder, filename, lbucket, lit, lattrs, chanCap, closes,
                   consuming>>

\* The consumer receives a buffered result.
Receive ==
    /\ consuming
    /\ lpc # "panic"
    /\ chanBuf # <<>>
    /\ received' = Append(received, Head(chanBuf))
    /\ chanBuf' = Tail(chanBuf)
    /\ UNCHANGED <<varsA, varsX, folder, filename, lbucket, lpc, lit, lattrs, chanCap,
                   closes, sent, consuming>>

\* The consumer stops receiving before results is closed.
ConsumerStop ==
    /\ consuming
    /\ lpc \notin {"done", "panic"}
    /\ consuming' = FALSE
    /\ UNCHANGED <<varsA, varsX, folder, filename, lbucket, lpc, lit, lattrs, chanCap,
                   chanBuf, closes, sent, received>>

InitList == IdleA /\ InitL /\ IdleX

NextL ==
    \/ LBegin
    \/ LNext
    \/ LSendErr
    \/ LFilter
    \/ LSendPath
    \/ Receive
    \/ ConsumerStop

SpecList == InitList /\ [][NextL]_vars

\* -------------------------------------------------- claims on listRecursive

\* The producer has ended: by leaving the loop or by a panic.
ProducerEnded == lpc \in {"done", "panic"}

\* C8: while the consumer keeps receiving, results is never closed twice,
\* the producer has nothing left to send once it is closed, and a producer
\* that has ended, after a normal or a failed listing, has closed it.
C8_ClosedExactlyOnce ==
    /\ closes <= 1
    /\ closes = 1 => lpc = "done"
    /\ (consuming /\ ProducerEnded) => closes = 1

\* C9: no success result follows an error result on results.
C9_NoPathAfterError ==
    \A i, j \in 1..Len(sent) :
        (i < j /\ sent[i].kind = "error") => sent[j].kind # "path"

\* C9's case: an error result was sent after a success result, and the
\* producer has gone on past it.
C9_Witness ==
    /\ Len(sent) = 2
    /\ sent[1].kind = "path"
    /\ sent[2].kind = "error"
    /\ lpc = "panic"

\* The normalized folder in the words of the claim: "/" appended if absent,
\* one leading "/" stripped.
SlashTerminated(p) == IF p # <<>> /\ p[Len(p)] = "/" THEN p ELSE Append(p, "/")
WithoutLeadingSlash(p) == IF p # <<>> /\ p[1] = "/" THEN Tail(p) ELSE p

\* The last path component of a key: what lies between its last separator
\* and its end, trailing separators set aside.
LastComponent(k) ==
    LET ends   == {i \in 1..Len(k) : k[i] # "/"}
        last   == IF ends = {} THEN 0 ELSE CHOOSE i \in ends : \A j \in ends : j <= i
        seps   == {i \in 1..last : k[i] = "/"}
        before == IF seps = {} THEN 0 ELSE CHOOSE i \in seps : \A j \in seps : j <= i
    IN  IF k = <<>> THEN <<".">>
        ELSE IF last = 0 THEN <<"/">>
        ELSE SubSeq(k, before + 1, last)

\* The keys an error-free MatchFilenamesRecursive is to emit, in order.
ExpectedMatches ==
    SelectSeq(lbucket,
              LAMBDA k : /\ HasPrefix(k, WithoutLeadingSlash(SlashTerminated(folder)))
                         /\ LastComponent(k) = filename)

Blocked ==
    /\ ~consuming
    /\ lpc \in {"sendErr", "sendPath"}
    /\ Len(chanBuf) = chanCap

\* C17: once the consumer has stopped before results is closed and the
\* producer has a result to send that the buffer cannot take, the producer
\* stays at that send in every further step: the result is never sent,
\* results is never closed and the producer never ends.
C17_AbandonedProducerStaysBlocked ==
    [][Blocked => (Blocked' /\ lpc' = lpc /\ sent' = sent /\ closes' = 0
                     /\ ~ProducerEnded')]_vars

\* C17's case: the consumer stopped, a buffered results is full and the
\* producer is at the send of one more result.
C17_Witness ==
    /\ Blocked
    /\ chanCap >= 1
    /\ chanBuf # <<>>
    /\ closes = 0

\* ==================================================== prefix normalisation

Alphabet == {"a", "b", "/"}

\* The strings over Alphabet of length at most MaxLen.
Strings == UNION {[1..n -> Alphabet] : n \in 0..MaxLen}

InitN ==
    /\ npc = "given"
    /\ nInput \in Strings
    /\ nOnce = <<>>
    /\ nTwice = <<>>

\* The normalisation at the entry of List and listRecursive.
NormalizeOnce ==
    /\ npc = "given"
    /\ nOnce' = NormalizePrefix(nInput)
    /\ npc' = "once"
    /\ UNCHANGED <<varsA, varsL, varsS, varsR, nInput, nTwice>>

\* The same normalisation, applied to a prefix that went through it.
NormalizeAgain ==
    /\ npc = "once"
    /\ nTwice' = NormalizePrefix(nOnce)
    /\ npc' = "twice"
    /\ UNCHANGED <<varsA, varsL, varsS, varsR, nInput, nOnce>>

InitNorm == IdleA /\ IdleL /\ IdleS /\ IdleR /\ InitN

NextN ==
    \/ NormalizeOnce
    \/ NormalizeAgain

SpecNorm == InitNorm /\ [][NextN]_vars

\* C14: a normalised prefix ends with "/" and does not begin with "/", and
\* normalising it again returns it unchanged, for every input string.
C14_NormalizeIdempotent ==
    /\ npc \in {"once", "twice"} =>
          /\ HasSuffix(nOnce, <<"/">>)
          /\ ~HasPrefix(nOnce, <<"/">>)
    /\ npc = "twice" => nTwice = nOnce

\* ------------------------------------- further claims on applyRecursive

\* ================================================ List, Put, PutDirectory

\* The data a caller puts; the objects of the bucket hold OldData.
OldData == <<"x">>
Datas   == {<<"x">>, <<"y">>}

\* The files found under localPath.
LocalFileSets == {{}, {<<"f">>}}

\* An entry of a delimited listing: an object carries its Name, a
\* sub-directory is a synthetic entry that carries its Prefix and no Name.
ObjectEntry(k) == [Name |-> k,    Prefix |-> <<>>]
PrefixEntry(p) == [Name |-> <<>>, Prefix |-> p]

\* The position of the first "/" of s, 0 when there is none.
FirstSlash(s) ==
    LET at == {i \in 1..Len(s) : s[i] = "/"}
    IN  IF at = {} THEN 0 ELSE CHOOSE i \in at : \A j \in at : i <= j

\* q without the repetitions of its elements.
RECURSIVE Dedup(_)
Dedup(q) ==
    IF q = <<>> THEN <<>>
    ELSE LET r == Dedup(Tail(q))
         IN  IF Head(q) \in Range(r) THEN r ELSE <<Head(q)>> \o r

\* bucket.Objects(ctx, &storage.Query{Prefix: prefix, Delimiter: "/"}): the
\* objects under prefix with no "/" after it, then one entry for each
\* distinct prefix up to the first "/" after it.
DelimitedObjects(bucket, prefix) ==
    LET under    == Objects(bucket, prefix)
        rest(k)  == SubSeq(k, Len(prefix) + 1, Len(k))
        items    == SelectSeq(under, LAMBDA k : FirstSlash(rest(k)) = 0)
        nested   == SelectSeq(under, LAMBDA k : FirstSlash(rest(k)) # 0)
        upTo(k)  == SubSeq(k, 1, Len(prefix) + FirstSlash(rest(k)))
        prefixes == Dedup([i \in 1..Len(nested) |-> upTo(nested[i])])
    IN  [i \in 1..Len(items) |-> ObjectEntry(items[i])]
          \o [i \in 1..Len(prefixes) |-> PrefixEntry(prefixes[i])]

\* fmt.Errorf("Failed to list gs://%s/%s", ...)
ErrFailedToList == [kind |-> "failedToList", key |-> <<>>]

InitS ==
    /\ call \in {"List", "Put", "PutDirectory"}
    /\ objects \in Buckets
    /\ contents = [k \in Range(objects) |-> OldData]
    /\ spath \in IF call = "Put" THEN Keys ELSE Dirs
    /\ data \in IF call = "Put" THEN Datas ELSE {<<>>}
    /\ localFiles \in IF call = "PutDirectory" THEN LocalFileSets ELSE {{}}
    /\ spc = "start"
    /\ sit = <<>>
    /\ results = <<>>
    /\ sret = NotReturned

\* List: results := []string{}, the normalisation of dir and the query
\* bucket.Objects(Prefix: dir, Delimiter: "/").
ListBegin ==
    /\ call = "List"
    /\ spc = "start"
    /\ results' = <<>>
    /\ sit' = DelimitedObjects(objects, NormalizePrefix(spath))
    /\ spc' = "next"
    /\ UNCHANGED <<varsA, varsL, varsN, varsR, call, spath, data, localFiles, objects,
                   contents, sret>>

\* List: attrs, err := it.Next(): iterator.Done ends the loop and results
\* is returned; any other error returns nil and the error; otherwise
\* attrs.Name is appended to results.
ListNext ==
    /\ call = "List"
    /\ spc = "next"
    /\ \/ /\ sit = <<>>
          /\ sret' = Nil
          /\ spc' = "returned"
          /\ UNCHANGED <<sit, results>>
       \/ /\ sret' = ErrFailedToList
          /\ results' = <<>>
          /\ spc' = "returned"
          /\ UNCHANGED sit
       \/ /\ sit # <<>>
          /\ results' = Append(results, Head(sit).Name)
          /\ sit' = Tail(sit)
          /\ UNCHANGED <<spc, sret>>
    /\ UNCHANGED <<varsA, varsL, varsN, varsR, call, spath, data, localFiles, objects,
                   contents>>

\* Put: the body is "return nil"; the bucket is not touched.
Put ==
    /\ call = "Put"
    /\ spc = "start"
    /\ sret' = Nil
    /\ spc' = "returned"
    /\ UNCHANGED <<varsA, varsL, varsN, varsR, call, spath, data, localFiles, objects,
                   contents, sit, results>>

\* PutDirectory: the body is "return nil"; the bucket is not touched.
PutDirectory ==
    /\ call = "PutDirectory"
    /\ spc = "start"
    /\ sret' = Nil
    /\ spc' = "returned"
    /\ UNCHANGED <<varsA, varsL, varsN, varsR, call, spath, data, localFiles, objects,
                   contents, sit, results>>

InitStore == IdleA /\ IdleL /\ IdleN /\ IdleR /\ InitS

NextS ==
    \/ ListBegin
    \/ ListNext
    \/ Put
    \/ PutDirectory

SpecStore == InitStore /\ [][NextS]_vars

\* ------------------------------------- claims on List, Put, PutDirectory

\* Put's data is stored under spath.
PutStored == spath \in DOMAIN contents /\ contents[spath] = data

\* Every file under localPath is stored under a key below storagePath.
PutDirectoryStored ==
    \A f \in localFiles :
        \E k \in DOMAIN contents :
            /\ HasPrefix(k, WithoutLeadingSlash(SlashTerminated(spath)))
            /\ HasSuffix(k, f)

\* C11: a Put or PutDirectory that returned nil has stored its data in the
\* bucket.
C11_NilReturnMeansStored ==
    /\ (call = "Put" /\ sret = Nil) => PutStored
    /\ (call = "PutDirectory" /\ sret = Nil) => PutDirectoryStored

\* The immediate child of the normalized prefix p that key k stands for: k
\* itself when no "/" follows p in it, else k up to and including the first
\* "/" after p.
ChildOf(k, p) ==
    LET after == {i \in (Len(p) + 1)..Len(k) : k[i] = "/"}
    IN  IF after = {} THEN k
        ELSE SubSeq(k, 1, CHOOSE i \in after : \A j \in after : i <= j)

ImmediateChildren ==
    LET p == WithoutLeadingSlash(SlashTerminated(spath))
    IN  {ChildOf(k, p) : k \in {o \in Range(objects) : HasPrefix(o, p)}}

\* C13: a List that returned without an error returned exactly the
\* immediate children of the normalized dir, object keys and prefix markers
\* ending in "/", each once, and no empty string.
C13_ListsImmediateChildren ==
    (call = "List" /\ sret = Nil) =>
        /\ Range(results) = ImmediateChildren
        /\ Len(results) = Cardinality(ImmediateChildren)
        /\ <<>> \notin Range(results)

\* The bucket as it is now, in listing order.
Remaining == SelectSeq(ns, LAMBDA k : k \in store)

\* k is dir itself or nested under dir + "/".
AtOrUnder(k, d) == k = d \/ HasPrefix(k, d \o <<"/">>)

\* C12: after Delete(path) returned nil the bucket holds neither path nor a
\* key under path + "/", and no recursive listing under a prefix of path
\* yields one.
C12_DeleteRemovesSubtree ==
    (op = "delete" /\ ret = Nil) =>
        /\ \A k \in store : ~AtOrUnder(k, dir)
        /\ \A n \in 0..Len(dir) :
              \A k \in Range(Objects(Remaining, SubSeq(dir, 1, n))) : ~AtOrUnder(k, dir)

\* C12's case: Delete("a") with concurrency 128 over a/b, a/d/, ab returned
\* nil, and a/b and a/d/ are gone.
C12_Witness ==
    /\ op = "delete"
    /\ concurrency = BulkConcurrency
    /\ dir = <<"a">>
    /\ Len(ns) = 3
    /\ ret = Nil
    /\ <<"a", "/", "b">> \notin store
    /\ <<"a", "/", "d", "/">> \notin store

\* A created local file lies inside localDir.
InsideLocalDir(f) ==
    LET base == Clean(localDir) IN
    /\ f.rooted = base.rooted
    /\ Len(f.elems) > Len(base.elems)
    /\ SubSeq(f.elems, 1, Len(base.elems)) = base.elems
    /\ \A i \in 1..Len(f.elems) : f.elems[i] # DotDot

\* C15: during GetDirectory, fn fails on every listed key that is not under
\* the remote prefix taken as a directory, and no local file is created
\* outside localDir.
C15_NothingOutsideLocalDir ==
    op = "get" =>
        /\ \A k \in Keys :
              (wstate[k] \in {"released", "done"}
                 /\ ~HasPrefix(k, WithoutLeadingSlash(SlashTerminated(dir)))) => werr[k]
        /\ \A f \in local : InsideLocalDir(f)

\* C16: when the recursive listing ends without having yielded an object,
\* no token is ever held, no worker is ever started, and applyRecursive
\* returns nil, for every N >= 1.
C16_EmptyListingReturnsNil ==
    (concurrency >= 1 /\ Objects(ns, dir) = <<>>) =>
        /\ semCur = 0
        /\ pc \notin {"go", "waiting"}
        /\ \A k \in Keys : wstate[k] = "none" /\ invoked[k] = 0
        /\ (Returned /\ failures = <<>>) => ret = Nil

\* C16's case: a bucket with objects, none of them under dir, and the call
\* has returned nil.
C16_Witness ==
    /\ concurrency >= 1
    /\ ns # <<>>
    /\ Objects(ns, dir) = <<>>
    /\ ret = Nil

\* The submission loop holds a token it has not yet given to a worker.
LoopHoldsToken == pc = "go" \/ (pc = "waiting" /\ ready)

\* C18: the tokens held are exactly those of the workers still running fn,
\* plus the one the loop has acquired for the worker it is about to start:
\* a worker's token is back once it finished, with or without an error,
\* and none is held when the loop has ended and all workers have finished.
C18_TokensReleasedOnce ==
    /\ semCur = Cardinality(Running) + (IF LoopHoldsToken THEN 1 ELSE 0)
    /\ (pc \in {"wait", "returned"} /\ Running = {}) => semCur = 0

\* C18's case: one worker finished with an error, one without, nothing is
\* running any more and the call has returned.
C18_Witness ==
    /\ Returned
    /\ \E k \in Keys : wstate[k] = "done" /\ werr[k]
    /\ \E k \in Keys : wstate[k] = "done" /\ ~werr[k]
    /\ Running = {}
    /\ semCur = 0

\* C19: with N >= 1 a call of applyRecursive that has not returned is never
\* stuck: some step that changes the state can be taken, whether the loop
\* is acquiring a token or waiting for the group. Every step moves the loop
\* or a worker forward and none moves one back, so the call returns.
C19_NeverStuckBeforeReturn ==
    concurrency >= 1 => (Returned \/ ENABLED <<Next>>_vars)

\* C19 as a property of the fair behaviours: the call eventually returns.
EventuallyReturns == (concurrency >= 1) => <>Returned

\* C19's case: with N = 1 and three listed objects the loop had to wait for
\* the token, one fn failed, and the call has returned.
C19_Witness ==
    /\ concurrency = 1
    /\ Len(Objects(ns, dir)) = 3
    /\ failures # <<>>
    /\ \A k \in Range(Objects(ns, dir)) : wstate[k] = "done"
    /\ Returned

\* ============================================================ docker Run

\* The exit statuses a container ends with.
StatusCodes == {0, 1}

\* The status waitUntilExit reports when waiting for the container failed.
WaitFailedStatus == 125

ErrCreate    == [kind |-> "create",    key |-> <<>>]
ErrStart     == [kind |-> "start",     key |-> <<>>]
ErrLogs      == [kind |-> "logs",      key |-> <<>>]
ErrCopy      == [kind |-> "copy",      key |-> <<>>]
ErrNonZero   == [kind |-> "nonZero",   key |-> <<>>]

InitR ==
    /\ rpc = "create"
    /\ rret = NotReturned
    /\ cancelled = FALSE
    /\ container = "none"
    /\ exitCode = NoStatus
    /\ waitc = "none"
    /\ resultError = FALSE
    /\ wpc = "none"
    /\ wval = NoStatus
    /\ gpc = "none"
    /\ errChan = <<>>
    /\ status = NoStatus

\* return e from Run: the deferred cancelFun cancels ctx.
RunReturn(e) ==
    /\ rret' = e
    /\ rpc' = "returned"
    /\ cancelled' = TRUE

\* dockerClient.ContainerCreate: an error is returned at once.
ContainerCreate ==
    /\ rpc = "create"
    /\ \/ /\ RunReturn(ErrCreate)
          /\ UNCHANGED container
       \/ /\ container' = "created"
          /\ rpc' = "wait"
          /\ UNCHANGED <<rret, cancelled>>
    /\ UNCHANGED <<varsA, varsL, varsN, varsS, exitCode, waitc, resultError, wpc,
                   wval, gpc, errChan, status>>

\* statusChan := waitUntilExit(...): ContainerWait is issued, the unbuffered
\* statusChan is made and the goroutine is started at its select.
WaitUntilExit ==
    /\ rpc = "wait"
    /\ waitc' = "waiting"
    /\ wpc' = "select"
    /\ rpc' = "start"
    /\ UNCHANGED <<varsA, varsL, varsN, varsS, rret, cancelled, container, exitCode,
                   resultError, wval, gpc, errChan, status>>

\* dockerClient.ContainerStart: an error is returned at once.
ContainerStart ==
    /\ rpc = "start"
    /\ \/ /\ RunReturn(ErrStart)
          /\ UNCHANGED container
       \/ /\ container' = "running"
          /\ rpc' = "logs"
          /\ UNCHANGED <<rret, cancelled>>
    /\ UNCHANGED <<varsA, varsL, varsN, varsS, exitCode, waitc, resultError, wpc,
                   wval, gpc, errChan, status>>

\* connectToLogs: an error of ContainerLogs is returned at once; otherwise
\* the channel of capacity 1 is made and the copying goroutine is started.
ConnectToLogs ==
    /\ rpc = "logs"
    /\ \/ /\ RunReturn(ErrLogs)
          /\ UNCHANGED gpc
       \/ /\ gpc' = "copy"
          /\ rpc' = "recvErr"
          /\ UNCHANGED <<rret, cancelled>>
    /\ UNCHANGED <<varsA, varsL, varsN, varsS, container, exitCode, waitc,
                   resultError, wpc, wval, errChan, status>>

\* The goroutine of connectToLogs: StdCopy returns nil when the followed
\* log stream ends with the container, or an error; the value goes into ch,
\* which has room for it.
StdCopy ==
    /\ gpc = "copy"
    /\ \/ /\ container = "exited"
          /\ errChan' = <<Nil>>
       \/ errChan' = <<ErrCopy>>
    /\ gpc' = "done"
    /\ UNCHANGED <<varsA, varsL, varsN, varsS, rpc, rret, cancelled, container,
                   exitCode, waitc, resultError, wpc, wval, status>>

\* if err := <-errChan; err != nil { return err }
ReceiveErr ==
    /\ rpc = "recvErr"
    /\ errChan # <<>>
    /\ errChan' = Tail(errChan)
    /\ IF Head(errChan) # Nil
         THEN RunReturn(Head(errChan))
         ELSE /\ rpc' = "recvStatus"
              /\ UNCHANGED <<rret, cancelled>>
    /\ UNCHANGED <<varsA, varsL, varsN, varsS, container, exitCode, waitc,
                   resultError, wpc, wval, gpc, status>>

\* status := <-statusChan: the receive meets the goroutine's send; a
\* non-zero status is returned as an error.
ReceiveStatus ==
    /\ rpc = "recvStatus"
    /\ wpc = "send"
    /\ status' = wval
    /\ wpc' = "done"
    /\ RunReturn(IF wval # 0 THEN ErrNonZero ELSE Nil)
    /\ UNCHANGED <<varsA, varsL, varsN, varsS, container, exitCode, waitc,
                   resultError, wval, gpc, errChan>>

\* The container's command ends.
ContainerExits ==
    /\ container = "running"
    /\ container' = "exited"
    /\ exitCode' \in StatusCodes
    /\ UNCHANGED <<varsA, varsL, varsN, varsS, rpc, rret, cancelled, waitc,
                   resultError, wpc, wval, gpc, errChan, status>>

\* ContainerWait answers on resultChan once the container has exited, with
\* or without an Error in the result.
WaitResult ==
    /\ waitc = "waiting"
    /\ container = "exited"
    /\ waitc' = "result"
    /\ resultError' \in BOOLEAN
    /\ UNCHANGED <<varsA, varsL, varsN, varsS, rpc, rret, cancelled, container,
                   exitCode, wpc, wval, gpc, errChan, status>>

\* ContainerWait answers on errChan: the request failed, as it does when
\* ctx is cancelled.
WaitError ==
    /\ waitc = "waiting"
    /\ waitc' = "error"
    /\ UNCHANGED <<varsA, varsL, varsN, varsS, rpc, rret, cancelled, container,
                   exitCode, resultError, wpc, wval, gpc, errChan, status>>

\* The goroutine of waitUntilExit: the select takes the result or the error
\* and the goroutine goes to its send on statusChan, with 125 for an error.
WaitSelect ==
    /\ wpc = "select"
    /\ waitc \in {"result", "error"}
    /\ wval' = IF waitc = "result" /\ ~resultError THEN exitCode
               ELSE WaitFailedStatus
    /\ waitc' = "taken"
    /\ wpc' = "send"
    /\ UNCHANGED <<varsA, varsL, varsN, varsS, rpc, rret, cancelled, container,
                   exitCode, resultError, gpc, errChan, status>>

InitRun == IdleA /\ IdleL /\ IdleN /\ IdleS /\ InitR

NextR ==
    \/ ContainerCreate
    \/ WaitUntilExit
    \/ ContainerStart
    \/ ConnectToLogs
    \/ StdCopy
    \/ ReceiveErr
    \/ ReceiveStatus
    \/ ContainerExits
    \/ WaitResult
    \/ WaitError
    \/ WaitSelect

SpecRun == InitRun /\ [][NextR]_vars

\* ------------------------------------------------------ claims on docker Run

\* C20: the goroutine of waitUntilExit is never left at its send on
\* statusChan by a Run that has returned, also not when Run returned early
\* with an error of ContainerStart, connectToLogs or the log copy: the send
\* is received, so the goroutine ends.
C20_StatusSendAlwaysReceived ==
    rpc = "returned" => wpc # "send"

====
